---- MODULE Spec2Model ----
(***************************************************************************)
(* Model of the transcription pipeline of auto_excel:                      *)
(*   - app/transcriber/trancribe.py: transcribe_audio_directory (the batch *)
(*     driver), upload_to_s3 and transcribe_file (the job orchestrator);   *)
(*   - app/transcriber/boto_client.py: upload_user_file,                   *)
(*     download_user_file and delete_user_file (the storage client).       *)
(* Text is a sequence of one-character strings, so that the sanitizer, the *)
(* truncation of job names, str.replace and str.split act on characters.   *)
(* Messages of exceptions are sequences of text fragments.                 *)
(***************************************************************************)
EXTENDS Integers, Sequences, FiniteSets, TLC

(* ------------------------------ bounds -------------------------------- *)

\* Most entries a directory listing holds.
MaxFiles == 3

\* Length of the stem of the long file name of the directory pool; it is
\* longer than what a job name keeps of a stem, so truncation happens.
LongStem == 40

(* ------------------------ text as characters -------------------------- *)

Rep(c, n) == [k \in 1..n |-> c]

Take(s, n) == SubSeq(s, 1, IF Len(s) < n THEN Len(s) ELSE n)

Range(s) == {s[k] : k \in 1..Len(s)}

DigitChars == <<"0", "1", "2", "3", "4", "5", "6", "7", "8", "9">>

\* str(i) of a non-negative integer, as the f-string formats it.
RECURSIVE Digits(_)
Digits(n) ==
    IF n < 10 THEN <<DigitChars[n + 1]>>
    ELSE Digits(n \div 10) \o <<DigitChars[(n % 10) + 1]>>

\* The characters the pattern [^0-9a-zA-Z._-] leaves alone.
SafeChars ==
    {"0", "1", "2", "3", "4", "5", "6", "7", "8", "9"} \cup
    {"a", "b", "c", "d", "e", "f", "g", "h", "i", "j", "k", "l", "m",
     "n", "o", "p", "q", "r", "s", "t", "u", "v", "w", "x", "y", "z"} \cup
    {"A", "B", "C", "D", "E", "F", "G", "H", "I", "J", "K", "L", "M",
     "N", "O", "P", "Q", "R", "S", "T", "U", "V", "W", "X", "Y", "Z"} \cup
    {".", "_", "-"}

\* A pattern that also lets the space through.
SanitizeCharKeepSpace(c) == IF c \in SafeChars \cup {" "} THEN c ELSE "_"

\* re.sub(r"[^0-9a-zA-Z._-]", "_", name)
SanitizeChar(c) == IF c \in SafeChars THEN c ELSE "_"

Sanitize(name) == [k \in 1..Len(name) |-> SanitizeChar(name[k])]

\* Position of the last dot of a name, 0 when it has none (str.rfind + 1).
LastDot(name) ==
    LET dots == {k \in 1..Len(name) : name[k] = "."}
    IN  IF dots = {} THEN 0 ELSE CHOOSE k \in dots : \A j \in dots : j <= k

\* pathlib: a name has a suffix when its last dot is neither its first nor
\* its last character.
HasSuffix(name) == LastDot(name) > 1 /\ LastDot(name) < Len(name)

Suffix(name) ==
    IF HasSuffix(name) THEN SubSeq(name, LastDot(name), Len(name)) ELSE <<>>

Stem(name) ==
    IF HasSuffix(name) THEN SubSeq(name, 1, LastDot(name) - 1) ELSE name

AudioExtensions ==
    {<<".", "m", "p", "3">>, <<".", "w", "a", "v">>,
     <<".", "M", "P", "3">>, <<".", "W", "A", "V">>}

\* datetime.now().strftime("%Y%m%d_%H%M%S"): one value for the whole run.
Timestamp ==
    <<"2", "0", "2", "4", "0", "1", "0", "1", "_",
      "1", "2", "0", "0", "0", "0">>

JobNameLen == 64

\* f"transcribe_temp/{timestamp}/{audio_file.name}"
S3Key(name) ==
    <<"t", "r", "a", "n", "s", "c", "r", "i", "b", "e", "_",
      "t", "e", "m", "p", "/">> \o Timestamp \o <<"/">> \o name

\* f"transcribe_job_{timestamp}_{i}_{audio_file.stem}"[:64]
JobName(idx, name) ==
    Take(<<"t", "r", "a", "n", "s", "c", "r", "i", "b", "e", "_",
           "j", "o", "b", "_">> \o Timestamp \o <<"_">> \o Digits(idx)
           \o <<"_">> \o Stem(name), JobNameLen)

\* f"s3://{bucket_name}/{s3_key}"
S3Uri(key) == <<"s", "3", ":", "/", "/", "v", "o", "x", "b", "e", "e", "/">> \o key

(* ------------------------ the directory pool -------------------------- *)

SpaceName == <<"a", " ", "b", ".", "w", "a", "v">>
UnderName == <<"a", "_", "b", ".", "w", "a", "v">>
LongName  == Rep("x", LongStem) \o <<".", "M", "P", "3">>
TextName  == <<"n", ".", "t", "x", "t">>

DirPool == <<SpaceName, UnderName, LongName, TextName>>

\* The listings directory.iterdir() may give: distinct names of the pool,
\* at most MaxFiles of them.
RECURSIVE SubLists(_)
SubLists(s) ==
    IF s = <<>> THEN {<<>>}
    ELSE LET rest == SubLists(Tail(s))
         IN  rest \cup {<<Head(s)>> \o r : r \in rest}

Reverse(s) == [k \in 1..Len(s) |-> s[Len(s) + 1 - k]]

\* iterdir() gives the entries in no particular order: both orders of the pool.
Listings ==
    {l \in SubLists(DirPool) \cup SubLists(Reverse(DirPool)) : Len(l) <= MaxFiles}

(* --------------------------- the provider ----------------------------- *)

MaxTries == 60

NoExc == [type |-> "none", msg |-> <<>>]

Raise(type, msg) == [type |-> type, msg |-> msg]

\* What get_transcription_job may answer: a status and, for a failed job,
\* a FailureReason key that may be missing.
NoReason == [has |-> FALSE, text |-> <<>>]

JobResponses ==
    {[status |-> s, reason |-> NoReason] : s \in {"QUEUED", "IN_PROGRESS", "COMPLETED"}}
    \cup {[status |-> "FAILED", reason |-> r] :
              r \in {NoReason, [has |-> TRUE, text |-> <<"Unsupported media">>]}}

NoJob == [status |-> "NONE", reason |-> NoReason]

\* The result documents a transcript URI may hold: well-formed with two
\* transcripts, well-formed with none, and not JSON at all.
GoodDoc  == [valid |-> TRUE, transcripts |-> <<<<"hello world">>, <<"second">>>>]
EmptyDoc == [valid |-> TRUE, transcripts |-> <<>>]
BadDoc   == [valid |-> FALSE, transcripts |-> <<>>]
NoDoc    == [valid |-> FALSE, transcripts |-> <<<<"no document">>>>]

Docs == {GoodDoc, EmptyDoc, BadDoc}

(* ----------------------------- the state ------------------------------ *)

VARIABLES
    cleanup_s3,      \* parameter of transcribe_audio_directory
    listing,         \* the entries directory.iterdir() gives
    disk,            \* names of the files in the directory
    scan_pos,        \* next entry of listing the first loop takes
    audio_files,     \* the sanitized names collected by the first loop
    pc,              \* position of the run
    i,               \* index of the batch loop (enumerate from 1)
    bucket,          \* keys of the objects in the S3 bucket
    max_tries,       \* transcribe_file: polls left
    checks,          \* get_transcription_job calls of the current job
    nonterminal,     \* of them, those that answered a non-terminal status
    job,             \* transcribe_file: the last answer of the provider
    doc,             \* the document at the job's TranscriptFileUri
    tmp_files,       \* indices of the jobs whose transcription_*.json exists
    transcript_text, \* transcribe_file: the text read from the document
    exc,             \* the exception in flight, NoExc when none
    results,         \* the report rows
    hist             \* per file: what was called and how its processing ended

batchVars ==
    <<cleanup_s3, listing, disk, scan_pos, audio_files, pc, i, bucket,
      max_tries, checks, nonterminal, job, doc, tmp_files, transcript_text,
      exc, results, hist>>

VARIABLES
    s3_objects,      \* boto_client: key -> content type of the objects in BUCKET
    local_files,     \* boto_client: the download paths that exist locally
    urls,            \* boto_client: the URLs uploads returned, each with its key
    calls,           \* boto_client: calls made so far
    last_call,       \* boto_client: the last call, its arguments and its key
    returned,        \* boto_client: what the last call returned
    raised           \* boto_client: the exception the last call let out

clientVars == <<s3_objects, local_files, urls, calls, last_call, returned, raised>>

VARIABLES
    fn_pc,           \* the functions applied to fn_name so far
    fn_name,         \* a file name
    fn_once,         \* re.sub of the sanitizer applied to fn_name
    fn_twice,        \* the sanitizer applied to fn_once
    fn_type          \* the content type upload_user_file picks for fn_name

fnVars == <<fn_pc, fn_name, fn_once, fn_twice, fn_type>>

vars == <<batchVars, clientVars, fnVars>>

NoText == <<>>

BlankHist ==
    [uploads |-> 0, starts |-> 0, end |-> "none", reason |-> NoReason,
     text |-> NoText, del |-> "none"]

BatchInit ==
    /\ cleanup_s3 \in BOOLEAN
    /\ listing \in Listings
    /\ disk = Range(listing)
    /\ scan_pos = 1
    /\ audio_files = <<>>
    /\ pc = "scan"
    /\ i = 0
    /\ bucket = {}
    /\ max_tries = 0
    /\ checks = 0
    /\ nonterminal = 0
    /\ job = NoJob
    /\ doc = NoDoc
    /\ tmp_files = {}
    /\ transcript_text = NoText
    /\ exc = NoExc
    /\ results = <<>>
    /\ hist = <<>>

NoUrl == <<>>

NoCall == [op |-> "none", url |-> NoUrl, key |-> <<>>]

NoReturn == [ok |-> FALSE, url |-> NoUrl]

ClientInit ==
    /\ s3_objects = {}
    /\ local_files = {}
    /\ urls = {}
    /\ calls = 0
    /\ last_call = NoCall
    /\ returned = NoReturn
    /\ raised = NoExc

NoType == "none"

\* No file name is under study while the batch driver or the client runs.
FnIdle ==
    /\ fn_pc = "idle"
    /\ fn_name = <<>>
    /\ fn_once = <<>>
    /\ fn_twice = <<>>
    /\ fn_type = NoType

Init == BatchInit /\ ClientInit /\ FnIdle

(* ------------------- transcribe_audio_directory ----------------------- *)

DirectoryPath ==
    <<"e", "x", "t", "r", "a", "c", "t", "e", "d", "_", "a", "u", "d", "i", "o">>

\* One turn of the first loop: an audio file is renamed to its sanitized
\* name (shutil.move replaces a file of that name) and collected.
ScanEntry ==
    /\ pc = "scan"
    /\ scan_pos <= Len(listing)
    /\ LET f == listing[scan_pos]
       IN  IF f \in disk /\ Suffix(f) \in AudioExtensions
           THEN /\ disk' = (disk \ {f}) \cup {Sanitize(f)}
                /\ audio_files' = Append(audio_files, Sanitize(f))
           ELSE UNCHANGED <<disk, audio_files>>
    /\ scan_pos' = scan_pos + 1
    /\ UNCHANGED <<clientVars, fnVars>>
    /\ UNCHANGED <<cleanup_s3, listing, pc, i, bucket, max_tries, checks,
                   nonterminal, job, doc, tmp_files, transcript_text, exc,
                   results, hist>>

\* After the first loop: no audio file is a ValueError, else the batch starts.
ScanDone ==
    /\ pc = "scan"
    /\ scan_pos > Len(listing)
    /\ IF audio_files = <<>>
       THEN /\ pc' = "raised"
            /\ exc' = Raise("ValueError",
                            <<"No audio files (mp3, wav) found in ">> \o DirectoryPath)
            /\ UNCHANGED <<i, hist>>
       ELSE /\ pc' = "upload"
            /\ i' = 1
            /\ hist' = [k \in 1..Len(audio_files) |-> BlankHist]
            /\ UNCHANGED exc
    /\ UNCHANGED <<clientVars, fnVars>>
    /\ UNCHANGED <<cleanup_s3, listing, disk, scan_pos, audio_files, bucket,
                   max_tries, checks, nonterminal, job, doc, tmp_files,
                   transcript_text, results>>

\* How the processing of file i ended, and the text it ended with.
Ended(kind, text) == [hist EXCEPT ![i].end = kind, ![i].text = text]

\* The for loop: the index after idx, and where the run goes from there.
NextIndex(idx) == idx + 1

NextPc(idx) == IF NextIndex(idx) <= Len(audio_files) THEN "upload" ELSE "done"

\* upload_to_s3 for file i, called with the names generated for it.
Upload ==
    /\ pc = "upload"
    /\ \/ /\ bucket' = bucket \cup {S3Key(audio_files[i])}
          /\ hist' = [hist EXCEPT ![i].uploads = @ + 1]
          /\ pc' = "start"
          /\ UNCHANGED exc
       \/ /\ exc' = Raise("S3UploadFailedError", <<"Failed to upload">>)
          /\ hist' = [Ended("UploadError", exc'.msg) EXCEPT ![i].uploads = @ + 1]
          /\ pc' = "except"
          /\ UNCHANGED bucket
    /\ UNCHANGED <<clientVars, fnVars>>
    /\ UNCHANGED <<cleanup_s3, listing, disk, scan_pos, audio_files, i,
                   max_tries, checks, nonterminal, job, doc, tmp_files,
                   transcript_text, results>>

(* -------------------------- transcribe_file --------------------------- *)

\* start_transcription_job, then the polling loop starts with 60 tries.
StartJob ==
    /\ pc = "start"
    /\ \/ /\ hist' = [hist EXCEPT ![i].starts = @ + 1]
          /\ max_tries' = MaxTries
          /\ pc' = "poll"
          /\ UNCHANGED exc
       \/ /\ exc' = Raise("ClientError", <<"StartTranscriptionJob failed">>)
          /\ hist' = [Ended("StartError", exc'.msg) EXCEPT ![i].starts = @ + 1]
          /\ pc' = "except"
          /\ UNCHANGED max_tries
    /\ UNCHANGED <<clientVars, fnVars>>
    /\ UNCHANGED <<cleanup_s3, listing, disk, scan_pos, audio_files, i, bucket,
                   checks, nonterminal, job, doc, tmp_files, transcript_text,
                   results>>

\* A loop that also runs with no try left.
PollAllowedOnceMore(tries) == tries >= 0

\* while max_tries > 0
PollAllowed(tries) == tries > 0

\* A status test that takes only FAILED for terminal.
IsTerminalOnlyFailed(status) == status = "FAILED"

\* job_status in ["COMPLETED", "FAILED"]
IsTerminal(status) == status \in {"COMPLETED", "FAILED"}

\* job["TranscriptionJob"].get("FailureReason", "Unknown error")
FailureReason(reason) == IF reason.has THEN reason.text ELSE <<"Unknown error">>

\* A message that leaves the reason out.
FailureMessageBare(reason) == <<"Transcription failed">>

\* f"Transcription failed: {failure_reason}"
FailureMessage(reason) == <<"Transcription failed: ">> \o FailureReason(reason)

\* f"Transcription job {job_name} timed out"
TimeoutMessage(job_name) == <<"Transcription job ">> \o job_name \o <<" timed out">>

\* One turn of the polling loop: a status check and what follows from it.
Poll ==
    /\ pc = "poll"
    /\ PollAllowed(max_tries)
    /\ max_tries' = max_tries - 1
    /\ checks' = checks + 1
    /\ \/ /\ exc' = Raise("ClientError", <<"GetTranscriptionJob failed">>)
          /\ hist' = Ended("PollError", exc'.msg)
          /\ pc' = "except"
          /\ UNCHANGED <<job, doc, nonterminal>>
       \/ \E r \in JobResponses :
             /\ job' = r
             /\ IF IsTerminal(r.status)
                THEN IF r.status = "COMPLETED"
                     THEN /\ pc' = "fetch"
                          /\ doc' \in Docs
                          /\ UNCHANGED <<exc, hist, nonterminal>>
                     ELSE /\ exc' = Raise("Exception", FailureMessage(r.reason))
                          /\ hist' = [Ended("FAILED", exc'.msg) EXCEPT ![i].reason = r.reason]
                          /\ pc' = "except"
                          /\ UNCHANGED <<doc, nonterminal>>
                ELSE /\ pc' = "poll"
                     /\ nonterminal' = nonterminal + 1
                     /\ UNCHANGED <<exc, hist, doc>>
    /\ UNCHANGED <<clientVars, fnVars>>
    /\ UNCHANGED <<cleanup_s3, listing, disk, scan_pos, audio_files, i, bucket,
                   tmp_files, transcript_text, results>>

\* The loop ran out of tries.
TimeOut ==
    /\ pc = "poll"
    /\ ~PollAllowed(max_tries)
    /\ exc' = Raise("TimeoutError", TimeoutMessage(JobName(i, audio_files[i])))
    /\ hist' = Ended("TimedOut", exc'.msg)
    /\ pc' = "except"
    /\ UNCHANGED <<clientVars, fnVars>>
    /\ UNCHANGED <<cleanup_s3, listing, disk, scan_pos, audio_files, i, bucket,
                   max_tries, checks, nonterminal, job, doc, tmp_files,
                   transcript_text, results>>

\* urllib.request.urlretrieve(transcript_uri, download_path): a failure may
\* or may not leave the local file behind.
Fetch ==
    /\ pc = "fetch"
    /\ \/ /\ tmp_files' = tmp_files \cup {i}
          /\ pc' = "read"
          /\ UNCHANGED <<exc, hist>>
       \/ /\ exc' = Raise("URLError", <<"urlopen error">>)
          /\ hist' = Ended("FetchError", exc'.msg)
          /\ tmp_files' \in {tmp_files, tmp_files \cup {i}}
          /\ pc' = "except"
    /\ UNCHANGED <<clientVars, fnVars>>
    /\ UNCHANGED <<cleanup_s3, listing, disk, scan_pos, audio_files, i, bucket,
                   max_tries, checks, nonterminal, job, doc, transcript_text,
                   results>>

\* json.load and transcript_data["results"]["transcripts"][0]["transcript"]
Readable(d) == d.valid /\ d.transcripts # <<>>

FirstTranscript(d) == d.transcripts[1]

ReadError(d) ==
    IF d.valid THEN Raise("IndexError", <<"list index out of range">>)
    ELSE Raise("JSONDecodeError", <<"Expecting value">>)

ReadTranscript ==
    /\ pc = "read"
    /\ IF Readable(doc)
       THEN /\ transcript_text' = FirstTranscript(doc)
            /\ pc' = "remove"
            /\ UNCHANGED <<exc, hist>>
       ELSE /\ exc' = ReadError(doc)
            /\ hist' = Ended("ReadError", exc'.msg)
            /\ pc' = "except"
            /\ UNCHANGED transcript_text
    /\ UNCHANGED <<clientVars, fnVars>>
    /\ UNCHANGED <<cleanup_s3, listing, disk, scan_pos, audio_files, i, bucket,
                   max_tries, checks, nonterminal, job, doc, tmp_files, results>>

\* os.remove(download_path); return transcript_text
RemoveTmp ==
    /\ pc = "remove"
    /\ tmp_files' = tmp_files \ {i}
    /\ hist' = Ended("returned", transcript_text)
    /\ pc' = "append"
    /\ UNCHANGED <<clientVars, fnVars>>
    /\ UNCHANGED <<cleanup_s3, listing, disk, scan_pos, audio_files, i, bucket,
                   max_tries, checks, nonterminal, job, doc, transcript_text,
                   exc, results>>

(* ------------------- the batch loop, after the call ------------------- *)

CompletedRow(name, text) ==
    [Filename |-> name, Transcription |-> text, Status |-> "Completed"]

\* f"Error: {str(e)}"
FailedRow(name, e) ==
    [Filename |-> name, Transcription |-> <<"Error: ">> \o e.msg, Status |-> "Failed"]

\* results.append({... "Status": "Completed" ...}) with the returned text.
StoreResult ==
    /\ pc = "append"
    /\ results' = Append(results, CompletedRow(audio_files[i], transcript_text))
    /\ max_tries' = 0
    /\ checks' = 0
    /\ nonterminal' = 0
    /\ job' = NoJob
    /\ doc' = NoDoc
    /\ transcript_text' = NoText
    /\ pc' = "cleanup"
    /\ UNCHANGED <<clientVars, fnVars>>
    /\ UNCHANGED <<cleanup_s3, listing, disk, scan_pos, audio_files, i, bucket,
                   tmp_files, exc, hist>>

\* if cleanup_s3: s3_client.delete_object(...); then the next file.
Cleanup ==
    /\ pc = "cleanup"
    /\ IF cleanup_s3
       THEN \/ /\ bucket' = bucket \ {S3Key(audio_files[i])}
               /\ hist' = [hist EXCEPT ![i].del = "ok"]
               /\ i' = NextIndex(i)
               /\ pc' = NextPc(i)
               /\ UNCHANGED exc
            \/ /\ exc' = Raise("ClientError", <<"DeleteObject failed">>)
               /\ hist' = [hist EXCEPT ![i].del = "raise"]
               /\ pc' = "except"
               /\ UNCHANGED <<bucket, i>>
       ELSE /\ i' = NextIndex(i)
            /\ pc' = NextPc(i)
            /\ UNCHANGED <<bucket, hist, exc>>
    /\ UNCHANGED <<clientVars, fnVars>>
    /\ UNCHANGED <<cleanup_s3, listing, disk, scan_pos, audio_files, max_tries,
                   checks, nonterminal, job, doc, tmp_files, transcript_text,
                   results>>

\* A handler that ends the batch at the first failure.
ExceptAbort ==
    /\ pc = "except"
    /\ results' = Append(results, FailedRow(audio_files[i], exc))
    /\ exc' = NoExc
    /\ max_tries' = 0
    /\ checks' = 0
    /\ nonterminal' = 0
    /\ job' = NoJob
    /\ doc' = NoDoc
    /\ transcript_text' = NoText
    /\ pc' = "done"
    /\ UNCHANGED <<clientVars, fnVars>>
    /\ UNCHANGED <<cleanup_s3, listing, disk, scan_pos, audio_files, i, bucket,
                   tmp_files, hist>>

\* A handler that tries the failed file again.
ExceptRetry ==
    /\ pc = "except"
    /\ results' = Append(results, FailedRow(audio_files[i], exc))
    /\ exc' = NoExc
    /\ max_tries' = 0
    /\ checks' = 0
    /\ nonterminal' = 0
    /\ job' = NoJob
    /\ doc' = NoDoc
    /\ transcript_text' = NoText
    /\ pc' = "upload"
    /\ UNCHANGED <<clientVars, fnVars>>
    /\ UNCHANGED <<cleanup_s3, listing, disk, scan_pos, audio_files, i, bucket,
                   tmp_files, hist>>

\* except Exception as e: the failed row, then the next file.
Except ==
    /\ pc = "except"
    /\ results' = Append(results, FailedRow(audio_files[i], exc))
    /\ exc' = NoExc
    /\ max_tries' = 0
    /\ checks' = 0
    /\ nonterminal' = 0
    /\ job' = NoJob
    /\ doc' = NoDoc
    /\ transcript_text' = NoText
    /\ i' = NextIndex(i)
    /\ pc' = NextPc(i)
    /\ UNCHANGED <<clientVars, fnVars>>
    /\ UNCHANGED <<cleanup_s3, listing, disk, scan_pos, audio_files, bucket,
                   tmp_files, hist>>

Next ==
    \/ ScanEntry
    \/ ScanDone
    \/ Upload
    \/ StartJob
    \/ Poll
    \/ TimeOut
    \/ Fetch
    \/ ReadTranscript
    \/ RemoveTmp
    \/ StoreResult
    \/ Cleanup
    \/ Except

Spec == Init /\ [][Next]_vars

(* --------------------------- boto_client.py --------------------------- *)

\* Most calls of the storage client in one behaviour.
MaxCalls == 3

UpperChars ==
    <<"A", "B", "C", "D", "E", "F", "G", "H", "I", "J", "K", "L", "M",
      "N", "O", "P", "Q", "R", "S", "T", "U", "V", "W", "X", "Y", "Z">>

LowerChars ==
    <<"a", "b", "c", "d", "e", "f", "g", "h", "i", "j", "k", "l", "m",
      "n", "o", "p", "q", "r", "s", "t", "u", "v", "w", "x", "y", "z">>

LowerChar(c) ==
    IF \E k \in 1..Len(UpperChars) : UpperChars[k] = c
    THEN LowerChars[CHOOSE k \in 1..Len(UpperChars) : UpperChars[k] = c]
    ELSE c

\* str.lower
Lower(s) == [k \in 1..Len(s) |-> LowerChar(s[k])]

\* str.endswith
EndsWith(s, suf) ==
    Len(s) >= Len(suf) /\ SubSeq(s, Len(s) - Len(suf) + 1, Len(s)) = suf

\* The chain of tests without the lower().
ContentTypeCaseSensitive(file_name) ==
    LET n == file_name
    IN  IF EndsWith(n, <<".", "m", "p", "3">>) \/ EndsWith(n, <<".", "m", "p", "e", "g">>)
        THEN "audio/mpeg"
        ELSE IF EndsWith(n, <<".", "w", "a", "v">>) THEN "audio/wav"
        ELSE IF EndsWith(n, <<".", "t", "x", "t">>) THEN "text/plain"
        ELSE IF EndsWith(n, <<".", "h", "t", "m", "l">>) THEN "text/html; charset=utf-8"
        ELSE IF EndsWith(n, <<".", "m", "p", "4">>) THEN "video/mp4"
        ELSE IF EndsWith(n, <<".", "m", "o", "v">>) THEN "video/quicktime"
        ELSE "application/octet-stream"

\* The chain of tests on file_name.lower() that picks the content type.
ContentType(file_name) ==
    LET n == Lower(file_name)
    IN  IF EndsWith(n, <<".", "m", "p", "3">>) \/ EndsWith(n, <<".", "m", "p", "e", "g">>)
        THEN "audio/mpeg"
        ELSE IF EndsWith(n, <<".", "w", "a", "v">>) THEN "audio/wav"
        ELSE IF EndsWith(n, <<".", "t", "x", "t">>) THEN "text/plain"
        ELSE IF EndsWith(n, <<".", "h", "t", "m", "l">>) THEN "text/html; charset=utf-8"
        ELSE IF EndsWith(n, <<".", "m", "p", "4">>) THEN "video/mp4"
        ELSE IF EndsWith(n, <<".", "m", "o", "v">>) THEN "video/quicktime"
        ELSE "application/octet-stream"

\* Position of the last "/" of a path, 0 when it has none.
LastSlash(path) ==
    LET at == {k \in 1..Len(path) : path[k] = "/"}
    IN  IF at = {} THEN 0 ELSE CHOOSE k \in at : \A j \in at : j <= k

\* os.path.basename
Basename(path) == SubSeq(path, LastSlash(path) + 1, Len(path))

\* os.path.dirname, of a path with no doubled slash
Dirname(path) ==
    IF LastSlash(path) = 1 THEN <<"/">> ELSE SubSeq(path, 1, LastSlash(path) - 1)

BUCKET == <<"v", "o", "x", "b", "e", "e">>

\* f"{bucket}.s3.amazonaws.com/"
Separator(bkt) ==
    bkt \o <<".", "s", "3", ".", "a", "m", "a", "z", "o", "n", "a", "w", "s",
                ".", "c", "o", "m", "/">>

\* f"user_{user_id}/{feature_name}/{project_id}/{object_name}"
ObjectKey(user_id, feature_name, project_id, object_name) ==
    <<"u", "s", "e", "r", "_">> \o user_id \o <<"/">> \o feature_name
       \o <<"/">> \o project_id \o <<"/">> \o object_name

\* str.replace of one character by another
ReplaceChar(s, old, new) == [k \in 1..Len(s) |-> IF s[k] = old THEN new ELSE s[k]]

\* f"https://{BUCKET}.s3.amazonaws.com/{object_key}".replace("\\", "/")
PublicUrl(object_key) ==
    ReplaceChar(<<"h", "t", "t", "p", "s", ":", "/", "/">> \o Separator(BUCKET)
                   \o object_key, "\\", "/")

\* str.find + 1: where sep first occurs in s, 0 when it does not.
IndexOf(s, sep) ==
    LET at == {k \in 1..(Len(s) - Len(sep) + 1) : SubSeq(s, k, k + Len(sep) - 1) = sep}
    IN  IF at = {} THEN 0 ELSE CHOOSE k \in at : \A j \in at : k <= j

\* str.split(sep): the pieces between the occurrences of sep, left to right.
RECURSIVE Split(_, _)
Split(s, sep) ==
    IF IndexOf(s, sep) = 0 THEN <<s>>
    ELSE <<SubSeq(s, 1, IndexOf(s, sep) - 1)>>
            \o Split(SubSeq(s, IndexOf(s, sep) + Len(sep), Len(s)), sep)

\* public_url.split(f"{bucket}.s3.amazonaws.com/")[1] raises IndexError
\* when the URL does not hold the separator.
HasKey(public_url, bkt) == Len(Split(public_url, Separator(bkt))) >= 2

ExtractKey(public_url, bkt) == Split(public_url, Separator(bkt))[2]

(* The arguments the calls are made with. *)

None == <<"<None>">>

UserIds == {<<"7">>, <<"4", "2">>}

FeatureNames == {<<"t", "t", "s">>}

ProjectIds == {<<"p", "1">>}

ObjectNames ==
    {None,
     <<"a", ".", "w", "a", "v">>,
     <<"d", "\\", "a", ".", "m", "p", "3">>,
     <<"x">> \o Separator(BUCKET) \o <<"y">>}

\* file_name: a path as text, or an object that is no str (a Path).
FileNames ==
    {[str |-> TRUE, path |-> <<"i", "n", "/", "b", ".", "W", "A", "V">>],
     [str |-> TRUE, path |-> <<"c", ".", "b", "i", "n">>],
     [str |-> FALSE, path |-> <<"i", "n", "/", "b", ".", "m", "p", "3">>]}

ForeignUrl == <<"h", "t", "t", "p", ":", "/", "/", "e", ".", "x", "/", "f">>

DownloadPaths == {<<"o", "u", "t", "/", "f">>, <<"f">>}

\* What a call of the S3 client may do.
ProviderOutcomes == {"ok", "ClientError", "OtherError"}

Keys(objects) == {o.key : o \in objects}

PutObject(objects, key, content_type) ==
    {o \in objects : o.key # key} \cup {[key |-> key, content_type |-> content_type]}

Failure == [ok |-> FALSE, url |-> NoUrl]

UploadUserFile ==
    /\ calls < MaxCalls
    /\ calls' = calls + 1
    /\ \E file_name \in FileNames, user_id \in UserIds, feature_name \in FeatureNames,
          project_id \in ProjectIds, object_name \in ObjectNames,
          outcome \in ProviderOutcomes :
          LET name == IF object_name = None THEN Basename(file_name.path)
                      ELSE object_name
              object_key == ObjectKey(user_id, feature_name, project_id, name)
          IN  /\ last_call' = [op |-> "upload", url |-> NoUrl, key |-> object_key]
              /\ IF ~file_name.str
                 THEN \* file_name.lower() raises, which is caught
                      /\ returned' = Failure
                      /\ raised' = NoExc
                      /\ UNCHANGED <<s3_objects, urls>>
                 ELSE CASE outcome = "ok" ->
                             /\ s3_objects' = PutObject(s3_objects, object_key,
                                                       ContentType(file_name.path))
                             /\ returned' = [ok |-> TRUE, url |-> PublicUrl(object_key)]
                             /\ urls' = urls \cup {[url |-> PublicUrl(object_key),
                                                    key |-> object_key]}
                             /\ raised' = NoExc
                        [] outcome = "ClientError" ->
                             /\ returned' = Failure
                             /\ raised' = NoExc
                             /\ UNCHANGED <<s3_objects, urls>>
                        [] OTHER ->
                             \* only ClientError is caught
                             /\ returned' = NoReturn
                             /\ raised' = Raise("S3UploadFailedError", <<"Failed to upload">>)
                             /\ UNCHANGED <<s3_objects, urls>>
    /\ UNCHANGED local_files
    /\ UNCHANGED <<batchVars, fnVars>>

\* The URLs a caller has: those uploads returned, and one of another site.
CallerUrls == {u.url : u \in urls} \cup {ForeignUrl}

DownloadUserFile ==
    /\ calls < MaxCalls
    /\ calls' = calls + 1
    /\ raised' = NoExc
    /\ \E public_url \in CallerUrls, download_path \in DownloadPaths,
          outcome \in ProviderOutcomes :
          IF ~HasKey(public_url, BUCKET)
          THEN /\ last_call' = [op |-> "download", url |-> public_url, key |-> <<>>]
               /\ returned' = Failure
               /\ UNCHANGED local_files
          ELSE /\ last_call' = [op |-> "download", url |-> public_url,
                                key |-> ExtractKey(public_url, BUCKET)]
               /\ IF /\ Dirname(download_path) # <<>>
                     /\ outcome = "ok"
                     /\ ExtractKey(public_url, BUCKET) \in Keys(s3_objects)
                  THEN /\ local_files' = local_files \cup {download_path}
                       /\ returned' = [ok |-> TRUE, url |-> NoUrl]
                  ELSE \* os.makedirs("") raises; a missing key is a ClientError
                       /\ returned' = Failure
                       /\ UNCHANGED local_files
    /\ UNCHANGED <<s3_objects, urls>>
    /\ UNCHANGED <<batchVars, fnVars>>

DeleteUserFile ==
    /\ calls < MaxCalls
    /\ calls' = calls + 1
    /\ raised' = NoExc
    /\ \E public_url \in CallerUrls, outcome \in ProviderOutcomes :
          IF ~HasKey(public_url, BUCKET)
          THEN /\ last_call' = [op |-> "delete", url |-> public_url, key |-> <<>>]
               /\ returned' = Failure
               /\ UNCHANGED s3_objects
          ELSE /\ last_call' = [op |-> "delete", url |-> public_url,
                                key |-> ExtractKey(public_url, BUCKET)]
               /\ IF outcome = "ok"
                  THEN /\ s3_objects' = {o \in s3_objects :
                                            o.key # ExtractKey(public_url, BUCKET)}
                       /\ returned' = [ok |-> TRUE, url |-> NoUrl]
                  ELSE /\ returned' = Failure
                       /\ UNCHANGED s3_objects
    /\ UNCHANGED <<local_files, urls>>
    /\ UNCHANGED <<batchVars, fnVars>>

\* The batch driver does not run while the storage client is exercised.
BatchIdle ==
    /\ cleanup_s3 = TRUE
    /\ listing = <<>>
    /\ disk = {}
    /\ scan_pos = 1
    /\ audio_files = <<>>
    /\ pc = "idle"
    /\ i = 0
    /\ bucket = {}
    /\ max_tries = 0
    /\ checks = 0
    /\ nonterminal = 0
    /\ job = NoJob
    /\ doc = NoDoc
    /\ tmp_files = {}
    /\ transcript_text = NoText
    /\ exc = NoExc
    /\ results = <<>>
    /\ hist = <<>>

ClientNext ==
    \/ UploadUserFile
    \/ DownloadUserFile
    \/ DeleteUserFile

ClientStart == BatchIdle /\ ClientInit /\ FnIdle

ClientSpec == ClientStart /\ [][ClientNext]_vars

(* --------------- the sanitizer and the content type ------------------- *)

\* Longest file name built from NameChars.
MaxNameLen == 2

\* Characters of file names: safe ones of each kind, and others.
NameChars == {"a", "Z", "5", ".", "_", "-", " ", "#"}

RECURSIVE Words(_, _)
Words(chars, n) ==
    IF n = 0 THEN {<<>>}
    ELSE LET shorter == Words(chars, n - 1)
         IN  shorter \cup {Append(w, c) : w \in shorter, c \in chars}

\* Endings of file names: those of the table in lower, upper and mixed
\* case, and near misses of them.
Endings ==
    {<<".", "m", "p", "3">>, <<".", "M", "P", "3">>, <<".", "M", "p", "3">>,
     <<".", "m", "p", "e", "g">>, <<".", "M", "P", "E", "G">>,
     <<".", "w", "a", "v">>, <<".", "W", "A", "V">>, <<".", "W", "a", "v">>,
     <<".", "t", "x", "t">>, <<".", "T", "X", "T">>,
     <<".", "h", "t", "m", "l">>, <<".", "H", "t", "m", "l">>,
     <<".", "m", "p", "4">>, <<".", "M", "P", "4">>,
     <<".", "m", "o", "v">>, <<".", "M", "O", "V">>,
     <<"m", "p", "3">>, <<".", "m", "p">>, <<".", "m", "p", "3", "x">>,
     <<".", "w", "a", "v", "e">>, <<".", "h", "t", "m">>, <<".", "j", "s", "o", "n">>,
     <<".", "m", "p", "3", ".", "w", "a", "v">>, <<".", "w", "a", "v", ".">>}

FileStems == {<<>>, <<"a", " ", "b">>, <<"d", "/", "c", ".", "t", "x", "t">>}

NameInputs ==
    Words(NameChars, MaxNameLen) \cup {st \o e : st \in FileStems, e \in Endings}

FnInit ==
    /\ fn_pc = "input"
    /\ fn_name \in NameInputs
    /\ fn_once = <<>>
    /\ fn_twice = <<>>
    /\ fn_type = NoType

\* new_filename = re.sub(...) of the name of a directory entry
SanitizeOnce ==
    /\ fn_pc = "input"
    /\ fn_once' = Sanitize(fn_name)
    /\ fn_pc' = "once"
    /\ UNCHANGED <<fn_name, fn_twice, fn_type>>
    /\ UNCHANGED <<batchVars, clientVars>>

\* The same on the renamed file, as a second run over the directory does.
SanitizeTwice ==
    /\ fn_pc = "once"
    /\ fn_twice' = Sanitize(fn_once)
    /\ fn_pc' = "twice"
    /\ UNCHANGED <<fn_name, fn_once, fn_type>>
    /\ UNCHANGED <<batchVars, clientVars>>

\* The content type upload_user_file sets for a file of that name.
PickContentType ==
    /\ fn_pc = "twice"
    /\ fn_type' = ContentType(fn_name)
    /\ fn_pc' = "typed"
    /\ UNCHANGED <<fn_name, fn_once, fn_twice>>
    /\ UNCHANGED <<batchVars, clientVars>>

FnNext ==
    \/ SanitizeOnce
    \/ SanitizeTwice
    \/ PickContentType

FnStart == BatchIdle /\ ClientInit /\ FnInit

FnSpec == FnStart /\ [][FnNext]_vars

(* ------------------------------ claims -------------------------------- *)

\* Whether the run is inside the call of transcribe_file for file i, after
\* the status check that answered COMPLETED.
AfterCompleted == pc \in {"fetch", "read", "remove", "append"}

\* Whether the batch loop is done with file k.
Finished(k) == pc = "done" \/ (pc \in {"upload", "start", "poll", "fetch", "read",
                                        "remove", "append", "cleanup", "except"} /\ k < i)

\* The place in results of the first row written for file k: every earlier
\* file has one row, and one more when its remote delete raised.
RowOf(k) == k + Cardinality({j \in 1..(k - 1) : hist[j].del = "raise"})

NoDeleteRaised == \A k \in 1..Len(hist) : hist[k].del # "raise"

\* C1: when the first N status checks answer a non-terminal status and the
\* next one COMPLETED (0 <= N < 60), transcribe_file has made exactly N+1
\* status checks, makes no further one, and what it returns is the first
\* transcript of the result document; once COMPLETED is seen it raises only
\* when the document cannot be fetched or read.
C1_CompletedAfterNPolls ==
    /\ job.status = "COMPLETED" =>
          /\ pc \in {"fetch", "read", "remove", "append", "except"}
          /\ nonterminal < MaxTries
          /\ checks = nonterminal + 1
    /\ AfterCompleted => job.status = "COMPLETED"
    /\ pc \in {"remove", "append"} =>
          /\ doc.valid
          /\ doc.transcripts # <<>>
          /\ transcript_text = doc.transcripts[1]
    /\ pc = "append" => hist[i].end = "returned" /\ hist[i].text = doc.transcripts[1]
    /\ (pc = "except" /\ job.status = "COMPLETED") =>
          \/ exc.type = "URLError"
          \/ exc.type = "JSONDecodeError" /\ ~doc.valid
          \/ exc.type = "IndexError" /\ doc.transcripts = <<>>

\* C1 witness: transcribe_file returns the text after 59 non-terminal
\* answers and COMPLETED on the 60th status check.
C1_Witness ==
    /\ pc = "append"
    /\ nonterminal = MaxTries - 1
    /\ checks = MaxTries
    /\ transcript_text = <<"hello world">>

\* C2: a job that never leaves a non-terminal status makes transcribe_file
\* end: each status check uses up one of the 60 tries, after 60 non-terminal
\* answers no further check is possible and the TimeoutError is raised, and
\* a TimeoutError is raised only then; it differs in type and in message
\* from the error raised for a FAILED job.
C2_TimeoutAfterMaxTries ==
    /\ pc = "poll" =>
          /\ checks + max_tries = MaxTries
          /\ checks = nonterminal
          /\ max_tries >= 0
    /\ (pc = "poll" /\ nonterminal = MaxTries) => (~ENABLED Poll /\ ENABLED TimeOut)
    /\ (pc = "poll" /\ nonterminal < MaxTries) => ~ENABLED TimeOut
    /\ exc.type = "TimeoutError" =>
          /\ pc = "except"
          /\ checks = MaxTries
          /\ nonterminal = MaxTries
          /\ job.status \notin {"COMPLETED", "FAILED"}
          /\ exc.msg = <<"Transcription job ">> \o JobName(i, audio_files[i])
                          \o <<" timed out">>
    /\ job.status = "FAILED" =>
          /\ exc.type = "Exception"
          /\ exc.msg[1] = "Transcription failed: "

\* C2 witness: the TimeoutError raised after 60 non-terminal answers.
C2_Witness ==
    /\ pc = "except"
    /\ exc.type = "TimeoutError"
    /\ checks = MaxTries
    /\ nonterminal = MaxTries

\* C3: whichever files fail in upload or transcription, the files are
\* attempted in order, each once; the first row written for a file carries
\* its name, and is Failed with "Error: " and the error text when its upload
\* or transcription raised, Completed with the transcript when it returned;
\* with no failure other than those, the report of a batch of n files has
\* n rows, the k-th for the k-th file.
C3_FailuresAreIsolated ==
    (pc \notin {"scan", "raised"}) =>
       /\ \A k \in 1..Len(audio_files) :
             /\ hist[k].uploads > 0 => k <= i
             /\ Finished(k) =>
                   /\ hist[k].uploads = 1
                   /\ hist[k].end # "none"
                   /\ RowOf(k) <= Len(results)
                   /\ results[RowOf(k)].Filename = audio_files[k]
                   /\ IF hist[k].end = "returned"
                      THEN /\ results[RowOf(k)].Status = "Completed"
                           /\ results[RowOf(k)].Transcription = hist[k].text
                      ELSE /\ results[RowOf(k)].Status = "Failed"
                           /\ results[RowOf(k)].Transcription = <<"Error: ">> \o hist[k].text
       /\ NoDeleteRaised =>
             /\ \A k \in 1..Len(audio_files) : RowOf(k) = k
             /\ pc = "done" => Len(results) = Len(audio_files)

\* C3 witness: a batch of three files ended, the second failed and the
\* others completed.
C3_Witness ==
    /\ pc = "done"
    /\ Len(audio_files) = 3
    /\ Len(results) = 3
    /\ results[1].Status = "Completed"
    /\ results[2].Status = "Failed"
    /\ results[2].Transcription = <<"Error: ", "Transcription failed: ", "Unsupported media">>
    /\ results[3].Status = "Completed"

\* C4: with cleanup_s3 set, no object uploaded by the run is left in the
\* bucket when the batch has ended, whatever the outcome of each file.
C4_CleanupRemovesEveryUpload ==
    (pc = "done" /\ cleanup_s3) => bucket = {}

\* C5: after the batch loop has handled k files the results list has
\* exactly k rows.
C5_OneRowPerFile ==
    /\ pc = "upload" => Len(results) = i - 1
    /\ pc = "done" => Len(results) = Len(audio_files)

\* C6: each entry of the file list is uploaded at most once and its job is
\* submitted at most once, also after the job failed or timed out.
C6_NoRetry ==
    (pc \notin {"scan", "raised"}) =>
       \A k \in 1..Len(audio_files) :
          /\ hist[k].uploads <= 1
          /\ hist[k].starts <= 1
          /\ hist[k].starts <= hist[k].uploads

\* C6 witness: a batch ended in which one job failed and another timed
\* out, each uploaded and submitted once.
C6_Witness ==
    /\ pc = "done"
    /\ \E k, l \in 1..Len(audio_files) :
          /\ hist[k].end = "FAILED"
          /\ hist[l].end = "TimedOut"
          /\ hist[k].uploads = 1 /\ hist[k].starts = 1
          /\ hist[l].uploads = 1 /\ hist[l].starts = 1

\* C7: a status check that answers FAILED ends the polling: transcribe_file
\* returns no text and raises an Exception whose message holds the
\* provider's failure reason, or "Unknown error" when there is none; the
\* exception reaches the handler of the batch loop, which writes it into
\* the row of that file.
C7_FailedJobRaises ==
    /\ job.status = "FAILED" =>
          /\ pc = "except"
          /\ ~ENABLED Poll
          /\ transcript_text = NoText
          /\ exc.type = "Exception"
          /\ exc.msg = <<"Transcription failed: ">> \o
                          (IF job.reason.has THEN job.reason.text ELSE <<"Unknown error">>)
          /\ hist[i].end = "FAILED"
          /\ hist[i].reason = job.reason
    /\ (pc \notin {"scan", "raised"}) =>
          \A k \in 1..Len(audio_files) :
             (hist[k].end = "FAILED" /\ Finished(k)) =>
                /\ results[RowOf(k)].Status = "Failed"
                /\ results[RowOf(k)].Transcription =
                      <<"Error: ", "Transcription failed: ">> \o
                         (IF hist[k].reason.has THEN hist[k].reason.text
                          ELSE <<"Unknown error">>)

\* C7 witness: a batch ended with a job that failed with a reason and one
\* that failed without.
C7_Witness ==
    /\ pc = "done"
    /\ \E k, l \in 1..Len(audio_files) :
          /\ hist[k].end = "FAILED" /\ hist[k].reason.has
          /\ hist[l].end = "FAILED" /\ ~hist[l].reason.has

\* C10: no two entries of the processed file list get the same job name
\* or the same object key.
C10_UniqueNames ==
    \A a, b \in 1..Len(audio_files) :
       a # b =>
          /\ JobName(a, audio_files[a]) # JobName(b, audio_files[b])
          /\ S3Key(audio_files[a]) # S3Key(audio_files[b])

\* C8: no call of upload_user_file, download_user_file or delete_user_file
\* lets an exception out, whatever the provider call raises; a call that
\* failed has returned the failure indicator.
C8_NoExceptionCrossesTheClient ==
    raised = NoExc

\* C9: the key that download_user_file and delete_user_file extract from
\* the public URL of a successful upload is the key of that upload.
C9_KeyUrlRoundTrip ==
    /\ \A u \in urls : HasKey(u.url, BUCKET) /\ ExtractKey(u.url, BUCKET) = u.key
    /\ \A u \in urls :
          (last_call.op \in {"download", "delete"} /\ last_call.url = u.url) =>
             last_call.key = u.key

\* C11: the sanitized name has the length of the name, keeps its safe
\* characters, has an underscore for every other one and so holds only
\* digits, letters, dot, underscore and hyphen; sanitizing it again gives
\* the same name.
C11_SanitizeIdempotent ==
    /\ fn_pc \in {"once", "twice", "typed"} =>
          /\ Len(fn_once) = Len(fn_name)
          /\ \A k \in 1..Len(fn_name) :
                /\ fn_once[k] \in SafeChars
                /\ fn_name[k] \in SafeChars => fn_once[k] = fn_name[k]
                /\ fn_name[k] \notin SafeChars => fn_once[k] = "_"
    /\ fn_pc \in {"twice", "typed"} => fn_twice = fn_once

\* C11 witness: a name with a space and one with a "#" sanitized twice,
\* the first run having changed the name.
C11_Witness ==
    /\ fn_pc = "twice"
    /\ \E k \in 1..Len(fn_name) : fn_name[k] \in {" ", "#"}
    /\ fn_once # fn_name
    /\ fn_twice = fn_once

\* The table of C12: endings in lower case and their content types.
TypeTable ==
    {<<<<".", "m", "p", "3">>, "audio/mpeg">>,
     <<<<".", "m", "p", "e", "g">>, "audio/mpeg">>,
     <<<<".", "w", "a", "v">>, "audio/wav">>,
     <<<<".", "t", "x", "t">>, "text/plain">>,
     <<<<".", "h", "t", "m", "l">>, "text/html; charset=utf-8">>,
     <<<<".", "m", "p", "4">>, "video/mp4">>,
     <<<<".", "m", "o", "v">>, "video/quicktime">>}

\* Whether name ends with ending, the case of letters set aside.
EndsWithAnyCase(name, ending) ==
    /\ Len(name) >= Len(ending)
    /\ \A k \in 1..Len(ending) :
          LowerChar(name[Len(name) - Len(ending) + k]) = ending[k]

\* C12: the content type picked for a file name is the one the table gives
\* for the ending of the name, the case of letters set aside, and
\* application/octet-stream when the name has none of these endings; no
\* name has two endings of the table, so each name has exactly one type.
C12_ContentTypeByExtension ==
    fn_pc = "typed" =>
          /\ \A row \in TypeTable :
                EndsWithAnyCase(fn_name, row[1]) => fn_type = row[2]
          /\ (\A row \in TypeTable : ~EndsWithAnyCase(fn_name, row[1])) =>
                fn_type = "application/octet-stream"

\* C12 witness: a name with an ending in mixed case got the type of the
\* table.
C12_Witness ==
    /\ fn_pc = "typed"
    /\ EndsWith(fn_name, <<".", "M", "p", "3">>)
    /\ Len(fn_name) > 4
    /\ fn_type = "audio/mpeg"

\* C13: when transcribe_file is left after the result document was
\* fetched, by its return or by an error of reading or parsing the
\* document, the local file transcription_{job_name}.json is gone.
C13_TempFileDiscarded ==
    (\/ pc = "append"
     \/ pc = "except" /\ exc.type \in {"JSONDecodeError", "IndexError"})
       => i \notin tmp_files

\* The part of C13 that the code keeps: the file is gone when
\* transcribe_file returns.
TempFileGoneOnReturn ==
    pc = "append" => i \notin tmp_files

\* The part of C10 that the code keeps: the job names are distinct, also
\* where the stems are cut.
UniqueJobNames ==
    pc = "scan" =>
    \A a, b \in 1..Len(audio_files) :
       a # b => JobName(a, audio_files[a]) # JobName(b, audio_files[b])
====
